---- MODULE Spec2Model ----
(***************************************************************************)
(* Quota tracking and conversation state of the YandexGPT Telegram bot:    *)
(* handlers.py (command handlers), state.py (in-memory / state-file        *)
(* backend and its dispatch to the database) and db.py (relational         *)
(* backend).  A handler is a coroutine: it runs without interruption up    *)
(* to its `await generate_reply(...)` / `await generate_image(...)`, where  *)
(* it is suspended until the provider answers or fails; other handlers may *)
(* run while it is suspended.                                              *)
(***************************************************************************)
EXTENDS Bags, FiniteSets, Integers, Sequences, TLC

\* ---------------------------------------------------------------- bounds
Chats == {1, 2}
Users == {10, 11}
MaxDay == 2
MaxInflight == 2
MaxExtraAsks == 1
MaxDbLen == 8
MaxUsageRows == 5
MaxTruncExtra == 3
MaxFileLines == 4
MaxTwoChatsRows == 2

\* ------------------------------------------------- configuration (config.py)
\* the values config.yaml gives the bot in the runs checked here
MAX_HISTORY_TURNS == 1
MAX_QUESTION_LEN == 2
DAILY_LIMIT == 2
IMAGE_GENERATION_LIMIT == 1
DEFAULT_SYSTEM_PROMPT == "default"
ADMIN_CHAT_IDS == {10}

None == "<None>"

\* inputs of the commands
Questions == {"", "aa", "cccc"}
ReplyTexts == {None, "aa"}
Descriptions == {"", "d"}
PromptArgs == {"", "P1"}
ProviderResults == {<<"r">>}
InitWhitelists == {{2}}


VARIABLES
    USE_DATABASE,       \* config.USE_DATABASE (and db_initialized)
    senders,            \* the chats that send commands in this run
    today,              \* the current calendar day
    UNLIMITED_IDS,      \* state.UNLIMITED_IDS
    unlimitedFile,      \* lines of the file at UNLIMITED_IDS_PATH
    admin_states,       \* admin_panel.admin_states  dict chat -> pending action
    PROMPTS,            \* state.PROMPTS            dict chat -> prompt
    HISTORIES,          \* state.HISTORIES          dict chat -> list of turns
    DAILY_USAGE,        \* state.DAILY_USAGE        dict chat -> <<date, count>>
    DAILY_IMAGE_USAGE,  \* state.DAILY_IMAGE_USAGE  dict chat -> <<date, count>>
    stateFile,          \* contents of STATE_FILE
    dbChats,            \* table chats:          dict chat -> is_unlimited
    dbPrompts,          \* table system_prompts: dict chat -> prompt_text
    dbMessages,         \* table messages:       chat -> rows in insertion order
    dbUsage,            \* table usage_records:       chat -> bag of rows
    dbImageUsage,       \* table image_usage_records: chat -> bag of rows
    inflight,           \* bag of handlers suspended in a provider call
    asked,              \* chat -> number of /ask quota checks made today
    accepted,           \* chat -> number of /ask quota checks passed today
    event,              \* what the last handler step did
    th, th0             \* truncation harness: a history and its original

store == <<PROMPTS, HISTORIES, DAILY_USAGE, DAILY_IMAGE_USAGE, stateFile,
           dbChats, dbPrompts, dbMessages, dbUsage, dbImageUsage>>
whitelist == <<UNLIMITED_IDS, unlimitedFile, admin_states>>
vars == <<USE_DATABASE, senders, today, whitelist, store, inflight, asked, accepted,
          event, th, th0>>

\* ------------------------------------------------------ python dictionaries
EmptyDict == <<>>
Get(d, k, default) == IF k \in DOMAIN d THEN d[k] ELSE default
Put(d, k, v) == [y \in DOMAIN d \cup {k} |-> IF y = k THEN v ELSE d[y]]
Pop(d, k) == [y \in DOMAIN d \ {k} |-> d[y]]

Turn(role, text) == [role |-> role, text |-> text]
Window == 1 + 2 * MAX_HISTORY_TURNS

\* The mutable stores as one record, so that the calls of a handler chain.
Cur == [PROMPTS |-> PROMPTS, HISTORIES |-> HISTORIES,
        DAILY_USAGE |-> DAILY_USAGE, DAILY_IMAGE_USAGE |-> DAILY_IMAGE_USAGE,
        stateFile |-> stateFile, dbChats |-> dbChats, dbPrompts |-> dbPrompts,
        dbMessages |-> dbMessages, dbUsage |-> dbUsage,
        dbImageUsage |-> dbImageUsage]

Commit(s) ==
    /\ PROMPTS' = s.PROMPTS
    /\ HISTORIES' = s.HISTORIES
    /\ DAILY_USAGE' = s.DAILY_USAGE
    /\ DAILY_IMAGE_USAGE' = s.DAILY_IMAGE_USAGE
    /\ stateFile' = s.stateFile
    /\ dbChats' = s.dbChats
    /\ dbPrompts' = s.dbPrompts
    /\ dbMessages' = s.dbMessages
    /\ dbUsage' = s.dbUsage
    /\ dbImageUsage' = s.dbImageUsage

\* ------------------------------------------------------------------ db.py
\* Fernet encryption of stored prompts and message contents.
Encrypt(t) == <<"fernet", t>>
Decrypt(b) == b[2]

get_or_create_chat(s, c) ==
    IF c \in DOMAIN s.dbChats THEN s
    ELSE [s EXCEPT !.dbChats = Put(@, c, FALSE)]

set_system_prompt(s, c, prompt) ==
    LET s1 == get_or_create_chat(s, c)
    IN [s1 EXCEPT !.dbPrompts = Put(@, c, Encrypt(prompt))]

get_system_prompt(s, c) ==
    IF c \in DOMAIN s.dbPrompts THEN Decrypt(s.dbPrompts[c]) ELSE None

MaxSequence(rows) ==
    CHOOSE m \in {rows[i].sequence : i \in DOMAIN rows} :
        \A i \in DOMAIN rows : rows[i].sequence <= m

\* sequence < 0 stands for the default `sequence=None`
add_message(s, c, role, content, sequence) ==
    LET s1 == get_or_create_chat(s, c)
        rows == s1.dbMessages[c]
        seq == IF sequence < 0
               THEN (IF rows = <<>> THEN 0 ELSE MaxSequence(rows) + 1)
               ELSE sequence
        row == [role |-> role, content |-> Encrypt(content), sequence |-> seq]
    IN [s1 EXCEPT !.dbMessages[c] = Append(rows, row)]

\* ORDER BY sequence: rows of equal sequence keep their table order
OrderBySequence(rows) ==
    LET before(j, i) == \/ rows[j].sequence < rows[i].sequence
                        \/ rows[j].sequence = rows[i].sequence /\ j < i
        rank(i) == 1 + Cardinality({j \in DOMAIN rows : before(j, i)})
    IN [k \in DOMAIN rows |-> rows[CHOOSE i \in DOMAIN rows : rank(i) = k]]

\* a faulty variant: the LIMIT is not applied
get_chat_history_all(s, c, limit) ==
    LET ordered == OrderBySequence(s.dbMessages[c])
    IN [i \in 1..Len(ordered) |-> Turn(ordered[i].role, Decrypt(ordered[i].content))]

\* limit = 0 stands for the default `limit=None`
get_chat_history(s, c, limit) ==
    LET ordered == OrderBySequence(s.dbMessages[c])
        n == IF limit /= 0 /\ limit < Len(ordered) THEN limit ELSE Len(ordered)
    IN [i \in 1..n |-> Turn(ordered[i].role, Decrypt(ordered[i].content))]

reset_chat_history(s, c) ==
    [s EXCEPT !.dbMessages[c] = SelectSeq(@, LAMBDA m : m.role = "system")]

UsageRow(date, count) == [date |-> date, count |-> count]
NoRow == UsageRow(0, 0)
\* the session or the query raised instead of returning a row
DbError == UsageRow(-1, -1)

\* The rows `.filter(chat_id == c, date >= today_start).first()` can return:
\* the query has no ORDER BY, so any matching row; NoRow when none matches.
FirstRows(table, c, day) ==
    LET matching == {r \in BagToSet(table[c]) : r.date >= day}
    IN IF matching = {} THEN {NoRow} ELSE matching

Replace(bag, old, new) == (bag (-) SetToBag({old})) (+) SetToBag({new})

\* `usage` is the row the query returned (a member of FirstRows)
check_and_increment_usage(s, c, daily_limit, usage) ==
    LET s1 == get_or_create_chat(s, c)
        row == IF usage = NoRow THEN UsageRow(today, 0) ELSE usage
    IN IF s1.dbChats[c] THEN [s |-> s1, result |-> TRUE]
       ELSE IF row.count >= daily_limit THEN [s |-> s1, result |-> FALSE]
       ELSE [s |-> [s1 EXCEPT !.dbUsage[c] =
                       IF usage = NoRow
                       THEN @ (+) SetToBag({UsageRow(row.date, row.count + 1)})
                       ELSE Replace(@, usage, UsageRow(row.date, row.count + 1))],
             result |-> TRUE]

check_and_increment_image_usage(s, c, daily_limit, usage) ==
    LET s1 == get_or_create_chat(s, c)
        row == IF usage = NoRow THEN UsageRow(today, 0) ELSE usage
    IN IF s1.dbChats[c] THEN [s |-> s1, result |-> TRUE]
       ELSE IF row.count >= daily_limit THEN [s |-> s1, result |-> FALSE]
       ELSE [s |-> [s1 EXCEPT !.dbImageUsage[c] =
                       IF usage = NoRow
                       THEN @ (+) SetToBag({UsageRow(row.date, row.count + 1)})
                       ELSE Replace(@, usage, UsageRow(row.date, row.count + 1))],
             result |-> TRUE]

\* one more row of usage_records, dated now, count = 1
add_usage_record(s, c) ==
    [s EXCEPT !.dbUsage[c] = @ (+) SetToBag({UsageRow(today, 1)})]

\* the chats row is created (committed when the chat carries a name or title)
update_chat_user_info(s, c) == get_or_create_chat(s, c)

\* --------------------------------------------------------------- state.py
\* json keys and dates of the state file
PyStr(k) == <<"str", k>>
PyInt(x) == x[2]
IsoFormat(d) == <<"iso", d>>
FromIsoFormat(x) == x[2]

\* a line of the whitelist file that int() rejects (a comment, a name)
InvalidLine == <<"text", 0>>
IsIntLine(line) == line[1] = "str"

NoStateFile == [exists |-> FALSE, prompts |-> EmptyDict, daily_usage |-> EmptyDict,
                image_usage |-> EmptyDict, histories |-> EmptyDict]

StrKeys(d) == {PyStr(k) : k \in DOMAIN d}

_save_state(s) ==
    IF USE_DATABASE THEN s
    ELSE [s EXCEPT !.stateFile =
            [exists |-> TRUE,
             prompts |-> [x \in StrKeys(s.PROMPTS) |-> s.PROMPTS[PyInt(x)]],
             daily_usage |-> [x \in StrKeys(s.DAILY_USAGE) |->
                 <<IsoFormat(s.DAILY_USAGE[PyInt(x)][1]), s.DAILY_USAGE[PyInt(x)][2]>>],
             image_usage |-> [x \in StrKeys(s.DAILY_IMAGE_USAGE) |->
                 <<IsoFormat(s.DAILY_IMAGE_USAGE[PyInt(x)][1]), s.DAILY_IMAGE_USAGE[PyInt(x)][2]>>],
             histories |-> [x \in StrKeys(s.HISTORIES) |-> s.HISTORIES[PyInt(x)]]]]

\* what _load_state would read back from the state file
_load_state(file) ==
    [PROMPTS |-> [k \in {PyInt(x) : x \in DOMAIN file.prompts} |-> file.prompts[PyStr(k)]],
     DAILY_USAGE |-> [k \in {PyInt(x) : x \in DOMAIN file.daily_usage} |->
         <<FromIsoFormat(file.daily_usage[PyStr(k)][1]), file.daily_usage[PyStr(k)][2]>>],
     DAILY_IMAGE_USAGE |-> [k \in {PyInt(x) : x \in DOMAIN file.image_usage} |->
         <<FromIsoFormat(file.image_usage[PyStr(k)][1]), file.image_usage[PyStr(k)][2]>>],
     HISTORIES |-> [k \in {PyInt(x) : x \in DOMAIN file.histories} |-> file.histories[PyStr(k)]]]

\* what a restart makes of the whitelist: the chats flagged in the database,
\* or int(line) of every line of the whitelist file
_load_unlimited_ids ==
    IF USE_DATABASE THEN {c \in DOMAIN dbChats : dbChats[c]}
    ELSE {PyInt(unlimitedFile[i]) : i \in {j \in DOMAIN unlimitedFile :
                                            IsIntLine(unlimitedFile[j])}}

\* a faulty variant: the bound is taken one turn too long
_truncate_history_one_more(history) ==
    LET extra == Len(history) - (2 + 2 * MAX_HISTORY_TURNS)
    IN IF extra > 0
       THEN <<history[1]>> \o SubSeq(history, 2 + extra, Len(history))
       ELSE history

\* a faulty variant: `del history[0:extra]`, the slice starts at the system turn
_truncate_history_from_head(history) ==
    LET extra == Len(history) - (1 + 2 * MAX_HISTORY_TURNS)
    IN IF extra > 0
       THEN SubSeq(history, 1 + extra, Len(history))
       ELSE history

_truncate_history(history) ==
    LET extra == Len(history) - (1 + 2 * MAX_HISTORY_TURNS)
    IN IF extra > 0
       THEN <<history[1]>> \o SubSeq(history, 2 + extra, Len(history))
       ELSE history

_is_unlimited(s, c) ==
    IF USE_DATABASE THEN get_or_create_chat(s, c).dbChats[c]
    ELSE c \in UNLIMITED_IDS

\* returns the stores, the list handed back, and whether that list is the
\* object held in HISTORIES (alias) or a list of its own
\* a faulty variant: the search for a system message never finds one
system_message_exists_never(history) == FALSE

\* the loop of _ensure_context over the fetched history
system_message_exists(history) ==
    \E i \in DOMAIN history : history[i].role = "system"

_ensure_context(s, c) ==
    IF USE_DATABASE
    THEN LET s1 == get_or_create_chat(s, c)
             s2 == IF c \in DOMAIN s1.PROMPTS
                   THEN LET system_prompt == s1.PROMPTS[c]
                            a == set_system_prompt(s1, c, system_prompt)
                            history == get_chat_history(a, c, 0)
                        IN IF system_message_exists(history)
                           THEN a
                           ELSE add_message(a, c, "system", system_prompt, 0)
                   ELSE LET stored == get_system_prompt(s1, c)
                            missing == stored = None \/ stored = ""
                            system_prompt == IF missing THEN DEFAULT_SYSTEM_PROMPT ELSE stored
                            a == IF missing
                                 THEN add_message(
                                        set_system_prompt(s1, c, system_prompt),
                                        c, "system", system_prompt, 0)
                                 ELSE s1
                        IN [a EXCEPT !.PROMPTS = Put(@, c, system_prompt)]
         IN [s |-> s2, history |-> get_chat_history(s2, c, 1 + 2 * MAX_HISTORY_TURNS),
             alias |-> FALSE]
    ELSE LET s1 == IF c \notin DOMAIN s.HISTORIES
                   THEN [s EXCEPT !.HISTORIES = Put(@, c,
                            <<Turn("system", Get(s.PROMPTS, c, DEFAULT_SYSTEM_PROMPT))>>)]
                   ELSE s
         IN [s |-> s1, history |-> s1.HISTORIES[c], alias |-> TRUE]

\* a faulty variant: the stored count is used whatever its date
_check_and_increment_usage_any_date(s, c, usage) ==
    IF USE_DATABASE /\ usage /= DbError
    THEN check_and_increment_usage(s, c, DAILY_LIMIT, usage)
    ELSE IF _is_unlimited(s, c) THEN [s |-> s, result |-> TRUE]
    ELSE LET stored == Get(s.DAILY_USAGE, c, <<today, 0>>)
             count == stored[2]
         IN IF count >= DAILY_LIMIT THEN [s |-> s, result |-> FALSE]
            ELSE [s |-> [s EXCEPT !.DAILY_USAGE = Put(@, c, <<today, count + 1>>)],
                  result |-> TRUE]

\* `usage`: the row the database query returned (unused by the in-memory
\* path); on DbError the except branch falls through to the in-memory path
_check_and_increment_usage(s, c, usage) ==
    IF USE_DATABASE /\ usage /= DbError
    THEN check_and_increment_usage(s, c, DAILY_LIMIT, usage)
    ELSE IF _is_unlimited(s, c) THEN [s |-> s, result |-> TRUE]
    ELSE LET stored == Get(s.DAILY_USAGE, c, <<today, 0>>)
             count == IF stored[1] /= today THEN 0 ELSE stored[2]
         IN IF count >= DAILY_LIMIT THEN [s |-> s, result |-> FALSE]
            ELSE [s |-> [s EXCEPT !.DAILY_USAGE = Put(@, c, <<today, count + 1>>)],
                  result |-> TRUE]

_check_and_increment_image_usage(s, c, usage) ==
    IF USE_DATABASE /\ usage /= DbError
    THEN check_and_increment_image_usage(s, c, IMAGE_GENERATION_LIMIT, usage)
    ELSE IF _is_unlimited(s, c) THEN [s |-> s, result |-> TRUE]
    ELSE LET stored == Get(s.DAILY_IMAGE_USAGE, c, <<today, 0>>)
             count == IF stored[1] /= today THEN 0 ELSE stored[2]
         IN IF count >= IMAGE_GENERATION_LIMIT THEN [s |-> s, result |-> FALSE]
            ELSE [s |-> [s EXCEPT !.DAILY_IMAGE_USAGE = Put(@, c, <<today, count + 1>>)],
                  result |-> TRUE]

_add_message_to_history(s, c, role, text) ==
    LET s1 == IF c \in DOMAIN s.HISTORIES
              THEN [s EXCEPT !.HISTORIES[c] = Append(@, Turn(role, text))]
              ELSE s
    IN IF USE_DATABASE THEN add_message(s1, c, role, text, -1) ELSE s1

\* a faulty variant: `HISTORIES.clear()` and a delete without the chat filter
_reset_chat_history_all(s, c) ==
    LET s1 == [s EXCEPT !.HISTORIES = EmptyDict]
    IN IF USE_DATABASE
       THEN [s1 EXCEPT !.dbMessages =
                [d \in Chats |-> SelectSeq(s1.dbMessages[d], LAMBDA m : m.role = "system")]]
       ELSE s1

_reset_chat_history(s, c) ==
    LET s1 == [s EXCEPT !.HISTORIES = Pop(@, c)]
    IN IF USE_DATABASE THEN reset_chat_history(s1, c) ELSE s1

\* ------------------------------------------------------------ yaclient.py
\* generate_reply: `result[0].text if result else "(empty response)"`
generate_reply(result) ==
    IF result /= <<>> THEN result[1] ELSE "(empty response)"

\* ------------------------------------------------------------ handlers.py
\* sent: the conversation handed to generate_reply by this step;
\* prompt: the prompt a /setprompt installed
Event(cmd, c, reply, sent) ==
    [cmd |-> cmd, chat |-> c, reply |-> reply, sent |-> sent, prompt |-> "",
     fault |-> FALSE, user |-> 0]
\* the event of a handler whose quota check got `usage` from the database
Checked(e, usage) == [e EXCEPT !.fault = (usage = DbError)]
NoEvent == Event("none", 0, "none", <<>>)

InflightOf(c, kind) == {r \in BagToSet(inflight) : r.chat = c /\ r.kind = kind}

RECURSIVE SumCounts(_, _)
SumCounts(bag, rs) ==
    IF rs = {} THEN 0
    ELSE LET r == CHOOSE x \in rs : TRUE
         IN bag[r] + SumCounts(bag, rs \ {r})

NumInflight(c, kind) == SumCounts(inflight, InflightOf(c, kind))

\* HISTORIES[c] is bound to a new list: the lists that suspended handlers of
\* chat c hold are no longer the stored one
Orphan(bag, c) ==
    LET f(r) == IF r.chat = c THEN [r EXCEPT !.alias = FALSE] ELSE r
        rs == BagToSet(bag)
    IN [t \in {f(r) : r \in rs} |-> SumCounts(bag, {r \in rs : f(r) = t})]

\* room for the rows one more handler of chat c adds to the database
DbRoom(c) ==
    USE_DATABASE =>
        /\ Len(dbMessages[c]) + NumInflight(c, "ask") + 3 <= MaxDbLen
        /\ BagCardinality(dbUsage[c]) + NumInflight(c, "ask") + 2 <= MaxUsageRows

\* a faulty variant: the guard counts bytes of a two-byte encoding
TooLong_bytes(question) == Len(question) > 2 * MAX_QUESTION_LEN

\* `len(question) > MAX_QUESTION_LEN`
TooLong(question) == Len(question) > MAX_QUESTION_LEN

\* a faulty variant: a question that fails validation gets its slot back
AskStart_validate_first(c, args, reply_to, usage) ==
    /\ BagCardinality(inflight) < MaxInflight
    /\ asked[c] < DAILY_LIMIT + MaxExtraAsks
    /\ DbRoom(c)
    /\ LET s0 == IF USE_DATABASE THEN update_chat_user_info(Cur, c) ELSE Cur
           chk == _check_and_increment_usage(s0, c, usage)
           question == IF args = "" /\ reply_to /= None THEN reply_to ELSE args
           ctx == _ensure_context(chk.s, c)
           prepared == IF USE_DATABASE
                       THEN _add_message_to_history(ctx.s, c, "user", question)
                       ELSE [ctx.s EXCEPT !.HISTORIES[c] =
                               _truncate_history(Append(ctx.history, Turn("user", question)))]
           history == IF USE_DATABASE THEN ctx.history ELSE prepared.HISTORIES[c]
           counted == ~_is_unlimited(s0, c)
       IN /\ asked' = [asked EXCEPT ![c] = IF counted THEN @ + 1 ELSE @]
          /\ IF ~chk.result
             THEN /\ Commit(chk.s)
                  /\ event' = Checked(Event("ask", c, "limit", <<>>), usage)
                  /\ UNCHANGED <<inflight, accepted>>
             ELSE /\ accepted' = [accepted EXCEPT ![c] = IF counted THEN @ + 1 ELSE @]
                  /\ IF question = ""
                     THEN /\ Commit(s0)
                          /\ event' = Checked(Event("ask", c, "usage", <<>>), usage)
                          /\ UNCHANGED inflight
                     ELSE IF TooLong(question)
                     THEN /\ Commit(s0)
                          /\ event' = Checked(Event("ask", c, "too_long", <<>>), usage)
                          /\ UNCHANGED inflight
                     ELSE /\ Commit(prepared)
                          /\ event' = Checked(Event("ask", c, "provider", history), usage)
                          /\ inflight' = inflight (+) SetToBag({
                                [kind |-> "ask", chat |-> c, alias |-> ctx.alias]})
    /\ UNCHANGED <<USE_DATABASE, senders, today, whitelist, th, th0>>

\* ask_cmd up to `await generate_reply(history)`
AskStart(c, args, reply_to, usage) ==
    /\ BagCardinality(inflight) < MaxInflight
    /\ asked[c] < DAILY_LIMIT + MaxExtraAsks
    /\ DbRoom(c)
    /\ LET s0 == IF USE_DATABASE THEN update_chat_user_info(Cur, c) ELSE Cur
           chk == _check_and_increment_usage(s0, c, usage)
           question == IF args = "" /\ reply_to /= None THEN reply_to ELSE args
           ctx == _ensure_context(chk.s, c)
           prepared == IF USE_DATABASE
                       THEN _add_message_to_history(ctx.s, c, "user", question)
                       ELSE [ctx.s EXCEPT !.HISTORIES[c] =
                               _truncate_history(Append(ctx.history, Turn("user", question)))]
           history == IF USE_DATABASE THEN ctx.history ELSE prepared.HISTORIES[c]
           counted == ~_is_unlimited(s0, c)
       IN /\ asked' = [asked EXCEPT ![c] = IF counted THEN @ + 1 ELSE @]
          /\ IF ~chk.result
             THEN /\ Commit(chk.s)
                  /\ event' = Checked(Event("ask", c, "limit", <<>>), usage)
                  /\ UNCHANGED <<inflight, accepted>>
             ELSE /\ accepted' = [accepted EXCEPT ![c] = IF counted THEN @ + 1 ELSE @]
                  /\ IF question = ""
                     THEN /\ Commit(chk.s)
                          /\ event' = Checked(Event("ask", c, "usage", <<>>), usage)
                          /\ UNCHANGED inflight
                     ELSE IF TooLong(question)
                     THEN /\ Commit(chk.s)
                          /\ event' = Checked(Event("ask", c, "too_long", <<>>), usage)
                          /\ UNCHANGED inflight
                     ELSE /\ Commit(prepared)
                          /\ event' = Checked(Event("ask", c, "provider", history), usage)
                          /\ inflight' = inflight (+) SetToBag({
                                [kind |-> "ask", chat |-> c, alias |-> ctx.alias]})
    /\ UNCHANGED <<USE_DATABASE, senders, today, whitelist, th, th0>>

\* ask_cmd from the return of generate_reply: an answer
AskAnswer(r, result) ==
    /\ r \in BagToSet(inflight) /\ r.kind = "ask"
    /\ LET answer == generate_reply(result)
           s1 == IF USE_DATABASE
                 THEN _add_message_to_history(add_usage_record(Cur, r.chat),
                                              r.chat, "assistant", answer)
                 ELSE _save_state(
                        IF r.alias /\ r.chat \in DOMAIN HISTORIES
                        THEN [Cur EXCEPT !.HISTORIES[r.chat] =
                                 Append(@, Turn("assistant", answer))]
                        ELSE Cur)
       IN /\ Commit(s1)
          /\ event' = Event("ask", r.chat, "answer", <<>>)
    /\ inflight' = inflight (-) SetToBag({r})
    /\ UNCHANGED <<USE_DATABASE, senders, today, whitelist, asked, accepted, th, th0>>

\* a faulty variant: the except branch gives the quota slot back
AskError_refund(r) ==
    /\ r \in BagToSet(inflight) /\ r.kind = "ask"
    /\ event' = Event("ask", r.chat, "error", <<>>)
    /\ inflight' = inflight (-) SetToBag({r})
    /\ DAILY_USAGE' = IF r.chat \in DOMAIN DAILY_USAGE
                      THEN [DAILY_USAGE EXCEPT ![r.chat] = <<@[1], @[2] - 1>>]
                      ELSE DAILY_USAGE
    /\ UNCHANGED <<USE_DATABASE, senders, today, whitelist, PROMPTS, HISTORIES,
                   DAILY_IMAGE_USAGE, stateFile, dbChats, dbPrompts, dbMessages,
                   dbUsage, dbImageUsage, asked, accepted, th, th0>>

\* ask_cmd from the return of generate_reply: the provider call raised
AskError(r) ==
    /\ r \in BagToSet(inflight) /\ r.kind = "ask"
    /\ event' = Event("ask", r.chat, "error", <<>>)
    /\ inflight' = inflight (-) SetToBag({r})
    /\ UNCHANGED <<USE_DATABASE, senders, today, whitelist, store, asked, accepted, th, th0>>

\* image_cmd up to `await generate_image(description)`
ImageStart(c, description, usage) ==
    /\ BagCardinality(inflight) < MaxInflight
    /\ DbRoom(c)
    /\ IF description = ""
       THEN /\ event' = Event("image", c, "usage", <<>>)
            /\ UNCHANGED <<store, inflight>>
       ELSE LET s0 == IF USE_DATABASE
                      THEN add_usage_record(update_chat_user_info(Cur, c), c)
                      ELSE Cur
                chk == _check_and_increment_image_usage(s0, c, usage)
            IN /\ Commit(chk.s)
               /\ IF ~chk.result
                  THEN /\ event' = Checked(Event("image", c, "limit", <<>>), usage)
                       /\ UNCHANGED inflight
                  ELSE /\ event' = Checked(Event("image", c, "provider", <<>>), usage)
                       /\ inflight' = inflight (+) SetToBag({
                             [kind |-> "image", chat |-> c, alias |-> FALSE]})
    /\ UNCHANGED <<USE_DATABASE, senders, today, whitelist, asked, accepted, th, th0>>

\* image_cmd from the return of generate_image: ok = a picture, else it raised
ImageDone(r, ok) ==
    /\ r \in BagToSet(inflight) /\ r.kind = "image"
    /\ event' = Event("image", r.chat, IF ok THEN "photo" ELSE "error", <<>>)
    /\ inflight' = inflight (-) SetToBag({r})
    /\ UNCHANGED <<USE_DATABASE, senders, today, whitelist, store, asked, accepted, th, th0>>

setprompt_cmd(c, user_id, new_prompt) ==
    /\ LET s0 == IF USE_DATABASE THEN update_chat_user_info(Cur, c) ELSE Cur
           is_unlimited == c \in UNLIMITED_IDS
           is_admin == user_id \in ADMIN_CHAT_IDS
           s1 == [s0 EXCEPT !.PROMPTS = Put(@, c, new_prompt)]
           s2 == _reset_chat_history(s1, c)
           s3 == IF USE_DATABASE THEN set_system_prompt(s2, c, new_prompt)
                 ELSE [s2 EXCEPT !.HISTORIES = Put(@, c, <<Turn("system", new_prompt)>>)]
           s4 == _save_state(s3)
           s5 == _ensure_context(s4, c).s
       IN IF ~(is_unlimited \/ is_admin)
          THEN /\ Commit(s0)
               /\ event' = Event("setprompt", c, "denied", <<>>)
               /\ UNCHANGED inflight
          ELSE IF new_prompt = ""
          THEN /\ Commit(s0)
               /\ event' = Event("setprompt", c, "usage", <<>>)
               /\ UNCHANGED inflight
          ELSE /\ Commit(s5)
               /\ event' = [Event("setprompt", c, "ok", <<>>) EXCEPT !.prompt = new_prompt]
               /\ inflight' = Orphan(inflight, c)
    /\ UNCHANGED <<USE_DATABASE, senders, today, whitelist, asked, accepted, th, th0>>

\* a faulty variant: `DAILY_USAGE.pop(chat_id, None)` is carried out as well
reset_cmd_clears_usage(c) ==
    /\ LET s0 == IF USE_DATABASE THEN update_chat_user_info(Cur, c) ELSE Cur
           s1 == [s0 EXCEPT !.PROMPTS = Pop(@, c), !.DAILY_USAGE = Pop(@, c)]
           s2 == _reset_chat_history(s1, c)
           s3 == _ensure_context(s2, c).s
           s4 == _save_state(s3)
       IN Commit(s4)
    /\ event' = Event("reset", c, "ok", <<>>)
    /\ inflight' = Orphan(inflight, c)
    /\ UNCHANGED <<USE_DATABASE, senders, today, whitelist, asked, accepted, th, th0>>

reset_cmd(c) ==
    /\ LET s0 == IF USE_DATABASE THEN update_chat_user_info(Cur, c) ELSE Cur
           s1 == [s0 EXCEPT !.PROMPTS = Pop(@, c)]
           s2 == _reset_chat_history(s1, c)
           s3 == _ensure_context(s2, c).s
           s4 == _save_state(s3)
       IN Commit(s4)
    /\ event' = Event("reset", c, "ok", <<>>)
    /\ inflight' = Orphan(inflight, c)
    /\ UNCHANGED <<USE_DATABASE, senders, today, whitelist, asked, accepted, th, th0>>

\* midnight: the calendar day changes
NextDay ==
    /\ today < MaxDay
    /\ today' = today + 1
    /\ asked' = [c \in Chats |-> 0]
    /\ accepted' = [c \in Chats |-> 0]
    /\ event' = Event("midnight", 0, "none", <<>>)
    /\ UNCHANGED <<USE_DATABASE, senders, whitelist, store, inflight, th, th0>>

\* ---------------------------------------------------------- admin_panel.py
\* a faulty variant: the check lets every user through
is_admin_anyone(user) == TRUE

\* is_admin: the user of the update, not its chat, is looked up
is_admin(user) == user \in ADMIN_CHAT_IDS

\* add_unlimited_user, called for a "confirm_add" callback that `user`
\* sent in chat chat_id
add_unlimited_user(chat_id, user, user_id) ==
    /\ Len(unlimitedFile) < MaxFileLines
    /\ LET s1 == IF USE_DATABASE
                 THEN [get_or_create_chat(Cur, user_id) EXCEPT !.dbChats[user_id] = TRUE]
                 ELSE _save_state(Cur)
       IN Commit(s1)
    /\ UNLIMITED_IDS' = UNLIMITED_IDS \cup {user_id}
    /\ unlimitedFile' = Append(unlimitedFile, PyStr(user_id))
    /\ admin_states' = Pop(admin_states, chat_id)
    /\ event' = [Event("add_unlimited", user_id, "ok", <<>>) EXCEPT !.user = user]
    /\ UNCHANGED <<USE_DATABASE, senders, today, inflight, asked, accepted, th, th0>>

\* remove_unlimited_user, called for a "confirm_remove" callback; int() of a
\* line that is no number raises after memory and database were changed, and
\* the except branch reports the error
remove_unlimited_user(chat_id, user, user_id) ==
    /\ LET s1 == IF USE_DATABASE
                 THEN [get_or_create_chat(Cur, user_id) EXCEPT !.dbChats[user_id] = FALSE]
                 ELSE _save_state(Cur)
       IN Commit(s1)
    /\ UNLIMITED_IDS' = UNLIMITED_IDS \ {user_id}
    /\ IF \E i \in DOMAIN unlimitedFile : ~IsIntLine(unlimitedFile[i])
       THEN /\ UNCHANGED <<unlimitedFile, admin_states>>
            /\ event' = [Event("remove_unlimited", user_id, "error", <<>>)
                            EXCEPT !.user = user]
       ELSE /\ unlimitedFile' =
                  SelectSeq(unlimitedFile, LAMBDA line : PyInt(line) /= user_id)
            /\ admin_states' = Pop(admin_states, chat_id)
            /\ event' = [Event("remove_unlimited", user_id, "ok", <<>>)
                            EXCEPT !.user = user]
    /\ UNCHANGED <<USE_DATABASE, senders, today, inflight, asked, accepted, th, th0>>

\* get_unlimited_users_list: sorted ids, here its length
get_unlimited_users_list ==
    IF USE_DATABASE THEN {c \in DOMAIN dbChats : dbChats[c]} ELSE UNLIMITED_IDS

\* a callback that changes nothing but a pending action
PanelEvent(chat_id, user, reply) ==
    [Event("callback", chat_id, reply, <<>>) EXCEPT !.user = user]

\* admin_callback_handler for the callback `data` that `user` sent in chat_id
admin_callback_handler(chat_id, user, data) ==
    IF ~is_admin(user)
    THEN /\ event' = PanelEvent(chat_id, user, "access_denied")
         /\ UNCHANGED <<USE_DATABASE, senders, today, whitelist, store, inflight,
                        asked, accepted, th, th0>>
    ELSE IF data.op = "confirm_add" THEN add_unlimited_user(chat_id, user, data.arg)
    ELSE IF data.op = "confirm_remove" THEN remove_unlimited_user(chat_id, user, data.arg)
    ELSE /\ admin_states' =
                IF data.op = "back" THEN Pop(admin_states, chat_id)
                ELSE IF data.op \in {"add_user", "remove_user"}
                THEN Put(admin_states, chat_id, data.op)
                ELSE admin_states
         /\ event' = PanelEvent(chat_id, user, data.op)
         /\ UNCHANGED <<USE_DATABASE, senders, today, UNLIMITED_IDS, unlimitedFile,
                        store, inflight, asked, accepted, th, th0>>

\* admin_message_handler for a message of `user` in chat_id: a shared
\* contact, or a text that is a number or not
admin_message_handler(chat_id, user, message) ==
    /\ LET pending == Get(admin_states, chat_id, None)
           handled ==
               IF ~is_admin(user) THEN "ignored"
               ELSE IF message = "contact"
               THEN IF pending = "add_user" THEN "confirm_add_user" ELSE "ignored"
               ELSE IF pending = "add_user"
               THEN IF message = "number" THEN "confirm_add_user" ELSE "invalid_id"
               ELSE IF pending = "remove_user"
               THEN IF message = "number" /\ get_unlimited_users_list /= {}
                    THEN "confirm_remove_user" ELSE "invalid_selection"
               ELSE "ignored"
       IN event' = [Event("message", chat_id, handled, <<>>) EXCEPT !.user = user]
    /\ UNCHANGED <<USE_DATABASE, senders, today, whitelist, store, inflight,
                   asked, accepted, th, th0>>

\* ------------------------------------------------------------ the system
\* the lines of a whitelist file that lists the chats of wl
FileLines(wl) ==
    CHOOSE lines \in [1..Cardinality(wl) -> {PyStr(c) : c \in wl}] :
        {PyInt(lines[i]) : i \in DOMAIN lines} = wl

\* state after import of state.py on a fresh data directory / database whose
\* whitelist holds `wl` and whose whitelist file holds the lines `file`
InitFrom(db, wl, active, file) ==
    /\ USE_DATABASE = db
    /\ senders = active
    /\ today = 1
    /\ UNLIMITED_IDS = wl
    /\ unlimitedFile = file
    /\ admin_states = EmptyDict
    /\ PROMPTS = EmptyDict
    /\ HISTORIES = EmptyDict
    /\ DAILY_USAGE = EmptyDict
    /\ DAILY_IMAGE_USAGE = EmptyDict
    /\ stateFile = NoStateFile
    /\ dbChats = IF db THEN [c \in wl |-> TRUE] ELSE EmptyDict
    /\ dbPrompts = EmptyDict
    /\ dbMessages = [c \in Chats |-> <<>>]
    /\ dbUsage = [c \in Chats |-> EmptyBag]
    /\ dbImageUsage = [c \in Chats |-> EmptyBag]
    /\ inflight = EmptyBag
    /\ asked = [c \in Chats |-> 0]
    /\ accepted = [c \in Chats |-> 0]
    /\ event = NoEvent

InitWith(db, wl, active) == InitFrom(db, wl, active, IF db THEN <<>> ELSE FileLines(wl))

Init ==
    /\ \E db \in BOOLEAN, wl \in InitWhitelists, c \in Chats : InitWith(db, wl, {c})
    /\ th = <<>>
    /\ th0 = <<>>

AskStep ==
    \E c \in senders, args \in Questions, reply_to \in ReplyTexts :
        \E usage \in FirstRows(dbUsage, c, today) : AskStart(c, args, reply_to, usage)
AskAnswerStep ==
    \E r \in BagToSet(inflight), result \in ProviderResults : AskAnswer(r, result)
AskErrorStep == \E r \in BagToSet(inflight) : AskError(r)
ImageStep ==
    \E c \in senders, description \in Descriptions :
        \E usage \in FirstRows(dbImageUsage, c, today) : ImageStart(c, description, usage)
ImageDoneStep == \E r \in BagToSet(inflight), ok \in BOOLEAN : ImageDone(r, ok)
SetPromptStep ==
    \E c \in senders, u \in Users, new_prompt \in PromptArgs : setprompt_cmd(c, u, new_prompt)
ResetStep == \E c \in senders : reset_cmd(c)

Next ==
    \/ AskStep
    \/ AskAnswerStep
    \/ AskErrorStep
    \/ ImageStep
    \/ ImageDoneStep
    \/ SetPromptStep
    \/ ResetStep
    \/ NextDay

Spec == Init /\ [][Next]_vars

\* one calendar day on which only /ask commands arrive
NextAsk ==
    \/ AskStep
    \/ AskAnswerStep
    \/ AskErrorStep

SpecAsk == Init /\ [][NextAsk]_vars

\* bot.py builds the Application without concurrent_updates: an update is
\* taken only when the handler of the previous one has returned
\* a faulty variant: built with concurrent_updates(True), an update is taken
\* while handlers of earlier ones are suspended
UpdatesOverlap == TRUE

NoHandlerRunning == inflight = EmptyBag

NextSerial ==
    \/ NoHandlerRunning /\ AskStep
    \/ AskAnswerStep
    \/ AskErrorStep
    \/ NoHandlerRunning /\ ImageStep
    \/ ImageDoneStep
    \/ NoHandlerRunning /\ SetPromptStep
    \/ NoHandlerRunning /\ ResetStep
    \/ NextDay

SpecSerial == Init /\ [][NextSerial]_vars

\* the commands that consume quota, handled one at a time over several days
NextQuota ==
    \/ NoHandlerRunning /\ AskStep
    \/ AskAnswerStep
    \/ AskErrorStep
    \/ NoHandlerRunning /\ ImageStep
    \/ ImageDoneStep
    \/ NextDay

SpecQuota == Init /\ [][NextQuota]_vars

\* the commands that touch a conversation, on one day; the handlers of
\* different updates interleave at their provider calls
NextHistory ==
    \/ AskStep
    \/ AskAnswerStep
    \/ AskErrorStep
    \/ SetPromptStep
    \/ ResetStep

SpecHistory == Init /\ [][NextHistory]_vars

\* the database fails inside the quota check of an /ask or an /image
AskStorageFailureStep ==
    /\ USE_DATABASE
    /\ \E c \in senders, args \in Questions, reply_to \in ReplyTexts :
           AskStart(c, args, reply_to, DbError)
ImageStorageFailureStep ==
    /\ USE_DATABASE
    /\ \E c \in senders : ImageStart(c, "d", DbError)

\* the quota commands, one at a time, with a database that can fail
NextStorageFailure ==
    \/ NoHandlerRunning /\ AskStep
    \/ NoHandlerRunning /\ AskStorageFailureStep
    \/ AskAnswerStep
    \/ AskErrorStep
    \/ NoHandlerRunning /\ ImageStep
    \/ NoHandlerRunning /\ ImageStorageFailureStep
    \/ ImageDoneStep
    \/ NextDay

SpecStorageFailure == Init /\ [][NextStorageFailure]_vars

\* ------------------------------------------- _truncate_history on its own
NonSystemTurns == {Turn("user", "a"), Turn("user", "bb"), Turn("assistant", "r")}
SystemTurns == {Turn("system", DEFAULT_SYSTEM_PROMPT), Turn("system", "P1")}

\* histories that start with a system turn, up to MaxTruncExtra turns too long
TruncInputs ==
    {<<sys>> \o tail :
        sys \in SystemTurns,
        tail \in UNION {[1..n -> NonSystemTurns] : n \in 0..(Window - 1 + MaxTruncExtra)}}

InitTrunc ==
    /\ InitWith(FALSE, {}, {})
    /\ th0 \in TruncInputs
    /\ th = <<>>

\* `_truncate_history(history)` on the history th0; th holds the list afterwards
TruncateCall ==
    /\ th = <<>>
    /\ th' = _truncate_history(th0)
    /\ UNCHANGED <<USE_DATABASE, senders, today, whitelist, store, inflight,
                   asked, accepted, event, th0>>

SpecTrunc == InitTrunc /\ [][TruncateCall]_vars

\* --------------------------------------------- two chats at the same time
\* both chats send commands; their handlers interleave at the provider calls
InitTwoChats ==
    /\ \E db \in BOOLEAN, wl \in InitWhitelists : InitWith(db, wl, Chats)
    /\ th = <<>>
    /\ th0 = <<>>

\* the next command of a chat arrives when its previous one was answered
Answered(c) == \A r \in BagToSet(inflight) : r.chat /= c

\* the chat's history and usage rows leave room for one more command
TwoChatsRoom(c) ==
    /\ Len(dbMessages[c]) < MaxTwoChatsRows
    /\ Len(Get(HISTORIES, c, <<>>)) < MaxTwoChatsRows
    /\ BagCardinality(dbUsage[c]) < MaxTwoChatsRows

\* each chat sends well-formed commands: a question, a description, a prompt
NextTwoChats ==
    \/ \E c \in senders :
          /\ TwoChatsRoom(c) /\ Answered(c)
          /\ \E usage \in FirstRows(dbUsage, c, today) : AskStart(c, "aa", None, usage)
    \/ AskAnswerStep
    \/ AskErrorStep
    \/ \E c \in senders :
          /\ TwoChatsRoom(c) /\ Answered(c)
          /\ \E usage \in FirstRows(dbImageUsage, c, today) : ImageStart(c, "d", usage)
    \/ ImageDoneStep
    \/ \E c \in senders : Answered(c) /\ setprompt_cmd(c, 10, "P1")
    \/ \E c \in senders : Answered(c) /\ reset_cmd(c)

SpecTwoChats == InitTwoChats /\ [][NextTwoChats]_vars

\* ------------------------------------------------ the whitelist on its own
\* the whitelist file as the operator wrote it: the chats of wl, with or
\* without a first line that is no number (_load_unlimited_ids skips it)
InitWhitelist ==
    /\ \E db \in BOOLEAN, wl \in InitWhitelists, comment \in BOOLEAN :
          InitFrom(db, wl, Chats,
                   (IF comment THEN <<InvalidLine>> ELSE <<>>)
                       \o (IF db THEN <<>> ELSE FileLines(wl)))
    /\ th = <<>>
    /\ th0 = <<>>

AddUnlimitedStep == \E user_id \in Chats : add_unlimited_user(10, 10, user_id)
RemoveUnlimitedStep == \E user_id \in Chats : remove_unlimited_user(10, 10, user_id)

NextWhitelist ==
    \/ AddUnlimitedStep
    \/ RemoveUnlimitedStep

SpecWhitelist == InitWhitelist /\ [][NextWhitelist]_vars

\* ------------------------------------------------------- the admin panel
PanelChats == {1, 10}
CallbackData ==
    {[op |-> o, arg |-> 0] :
        o \in {"back", "list_users", "add_user", "remove_user"}}
    \cup {[op |-> o, arg |-> u] :
        o \in {"confirm_add", "confirm_remove", "select_remove"}, u \in Chats}
Messages == {"contact", "number", "text"}

CallbackStep ==
    \E chat_id \in PanelChats, user \in Users, data \in CallbackData :
        admin_callback_handler(chat_id, user, data)
MessageStep ==
    \E chat_id \in PanelChats, user \in Users, message \in Messages :
        admin_message_handler(chat_id, user, message)

NextAdmin ==
    \/ CallbackStep
    \/ MessageStep

SpecAdmin == InitWhitelist /\ [][NextAdmin]_vars

\* ------------------------------------------------------------ properties
Min(a, b) == IF a < b THEN a ELSE b

FileBackend == ~USE_DATABASE

\* the chat is exempt from the quota under the running backend
Unlimited(c) ==
    IF USE_DATABASE THEN Get(dbChats, c, FALSE) ELSE c \in UNLIMITED_IDS

\* the counts a text quota check made now can read for chat c
TodayCounts(c) ==
    IF USE_DATABASE
    THEN {r.count : r \in FirstRows(dbUsage, c, today)}
    ELSE {IF Get(DAILY_USAGE, c, <<today, 0>>)[1] = today
          THEN Get(DAILY_USAGE, c, <<today, 0>>)[2] ELSE 0}

\* what is stored for chat c, under both backends
TextCounter(c) == <<Get(DAILY_USAGE, c, <<0, 0>>), dbUsage[c]>>
ImageCounter(c) == <<Get(DAILY_IMAGE_USAGE, c, <<0, 0>>), dbImageUsage[c]>>
StoredHistory(c) == <<c \in DOMAIN HISTORIES, Get(HISTORIES, c, <<>>), dbMessages[c]>>
StoredPrompt(c) == <<Get(PROMPTS, c, None), Get(dbPrompts, c, <<>>)>>

\* C1: on one day with only /ask calls, starting from a count of 0, a chat
\* under quota has exactly its first DAILY_LIMIT calls accepted, the count
\* read by the check equals the number of accepted calls, and later calls
\* are denied.
C1_DailyLimitSequence ==
    \A c \in Chats :
        ~Unlimited(c) =>
            /\ accepted[c] = Min(asked[c], DAILY_LIMIT)
            /\ accepted[c] \in TodayCounts(c)

\* the same under the file backend alone
C1_File == FileBackend => C1_DailyLimitSequence

\* C2: a step that answers "limit reached" leaves the chat's text counter,
\* image counter, stored history and prompt as they were and hands nothing
\* to the provider.
C2_DeniedMutatesNothing ==
    [][\A c \in Chats :
          (event'.reply = "limit" /\ event'.chat = c) =>
              /\ TextCounter(c)' = TextCounter(c)
              /\ ImageCounter(c)' = ImageCounter(c)
              /\ StoredHistory(c)' = StoredHistory(c)
              /\ StoredPrompt(c)' = StoredPrompt(c)
              /\ inflight' = inflight]_vars

\* the same steps under the file backend alone
C2_File ==
    [][\A c \in Chats :
          (FileBackend /\ event'.reply = "limit" /\ event'.chat = c) =>
              /\ TextCounter(c)' = TextCounter(c)
              /\ ImageCounter(c)' = ImageCounter(c)
              /\ StoredHistory(c)' = StoredHistory(c)
              /\ StoredPrompt(c)' = StoredPrompt(c)
              /\ inflight' = inflight]_vars

\* C3: while /ask handlers of a chat under quota are suspended together,
\* the checks passed today are exactly min(checks made, limit) and no count
\* the check can read exceeds the limit.
C3_ConcurrentLimit ==
    \A c \in Chats :
        (~Unlimited(c) /\ NumInflight(c, "ask") >= 2) =>
            /\ accepted[c] = Min(asked[c], DAILY_LIMIT)
            /\ \A n \in TodayCounts(c) : n <= DAILY_LIMIT

\* the same for suspended handlers under the file backend alone
C3_File == FileBackend => C3_ConcurrentLimit

\* C4: no step changes the text or image counter of a whitelisted chat, and
\* no /ask or /image of a whitelisted chat is answered "limit reached".
C4_WhitelistedUntouched ==
    [][\A c \in Chats :
          Unlimited(c) =>
              /\ TextCounter(c)' = TextCounter(c)
              /\ ImageCounter(c)' = ImageCounter(c)
              /\ ~(event'.reply = "limit" /\ event'.chat = c)]_vars

\* the same for whitelisted chats under the file backend alone
C4_File ==
    [][\A c \in Chats :
          (FileBackend /\ Unlimited(c)) =>
              /\ TextCounter(c)' = TextCounter(c)
              /\ ImageCounter(c)' = ImageCounter(c)
              /\ ~(event'.reply = "limit" /\ event'.chat = c)]_vars

\* the replies of a handler that has made its quota check
AskChecked == {"limit", "usage", "too_long", "provider"}
ImageChecked == {"limit", "provider"}

\* every counter stored for chat c carries a date earlier than today
StaleText(c) ==
    IF USE_DATABASE
    THEN dbUsage[c] /= EmptyBag /\ \A r \in BagToSet(dbUsage[c]) : r.date < today
    ELSE c \in DOMAIN DAILY_USAGE /\ DAILY_USAGE[c][1] < today
StaleImage(c) ==
    IF USE_DATABASE
    THEN dbImageUsage[c] /= EmptyBag /\ \A r \in BagToSet(dbImageUsage[c]) : r.date < today
    ELSE c \in DOMAIN DAILY_IMAGE_USAGE /\ DAILY_IMAGE_USAGE[c][1] < today

TodayImageCounts(c) ==
    IF USE_DATABASE
    THEN {r.count : r \in FirstRows(dbImageUsage, c, today)}
    ELSE {IF Get(DAILY_IMAGE_USAGE, c, <<today, 0>>)[1] = today
          THEN Get(DAILY_IMAGE_USAGE, c, <<today, 0>>)[2] ELSE 0}

\* C5: when every counter stored for a chat under quota is dated before
\* today, the next quota check (text or image) is accepted whatever the
\* stored count, and the counter it leaves is (today, 1): the file backend
\* overwrites the stale entry, the database adds a row (today, 1) and the
\* check reads 1 afterwards.
C5_StaleCounterReset ==
    [][\A c \in Chats :
          (~Unlimited(c) /\ event'.chat = c) =>
              /\ (event'.cmd = "ask" /\ event'.reply \in AskChecked /\ StaleText(c)) =>
                    /\ event'.reply /= "limit"
                    /\ TodayCounts(c)' = {1}
                    /\ IF USE_DATABASE
                       THEN dbUsage'[c] = dbUsage[c] (+) SetToBag({UsageRow(today, 1)})
                       ELSE DAILY_USAGE'[c] = <<today, 1>>
              /\ (event'.cmd = "image" /\ event'.reply \in ImageChecked /\ StaleImage(c)) =>
                    /\ event'.reply /= "limit"
                    /\ TodayImageCounts(c)' = {1}
                    /\ IF USE_DATABASE
                       THEN dbImageUsage'[c] =
                                dbImageUsage[c] (+) SetToBag({UsageRow(today, 1)})
                       ELSE DAILY_IMAGE_USAGE'[c] = <<today, 1>>]_vars

\* a first /ask of a new day was accepted although the chat had used its
\* whole limit on an earlier day
C5_Witness ==
    \E c \in Chats :
        /\ ~Unlimited(c) /\ today > 1
        /\ event.cmd = "ask" /\ event.chat = c /\ event.reply = "provider"
        /\ asked[c] = 1 /\ accepted[c] = 1
        /\ IF USE_DATABASE
           THEN /\ \E r \in BagToSet(dbUsage[c]) : r.date < today /\ r.count = DAILY_LIMIT
                /\ UsageRow(today, 1) \in BagToSet(dbUsage[c])
           ELSE /\ DAILY_USAGE[c] = <<today, 1>>
                /\ PyStr(c) \in DOMAIN stateFile.daily_usage
                /\ stateFile.daily_usage[PyStr(c)] = <<IsoFormat(today - 1), DAILY_LIMIT>>

\* what the next `_ensure_context(chat_id)` hands back for chat c
Fetch(c) == _ensure_context(Cur, c).history

\* the system prompt in force for chat c
PromptInUse(c) ==
    IF c \in DOMAIN PROMPTS THEN PROMPTS[c]
    ELSE IF USE_DATABASE /\ c \in DOMAIN dbPrompts THEN Decrypt(dbPrompts[c])
    ELSE DEFAULT_SYSTEM_PROMPT

\* C6: right after an authorized /setprompt X with non-empty X, the next
\* history fetch of the chat returns exactly one turn, system with text X,
\* under either backend.
C6_SetPromptThenFetch ==
    (event.cmd = "setprompt" /\ event.reply = "ok") =>
        Fetch(event.chat) = <<Turn("system", event.prompt)>>

\* the same under the file backend alone
C6_File == FileBackend => C6_SetPromptThenFetch

\* C7: a /reset of a chat that has a custom prompt clears it, and the next
\* history fetch returns exactly one system turn with the default prompt,
\* under either backend.
C7_ResetRestoresDefault ==
    [][\A c \in Chats :
          (event'.cmd = "reset" /\ event'.chat = c
              /\ PromptInUse(c) /= DEFAULT_SYSTEM_PROMPT) =>
              /\ PromptInUse(c)' = DEFAULT_SYSTEM_PROMPT
              /\ Fetch(c)' = <<Turn("system", DEFAULT_SYSTEM_PROMPT)>>]_vars

\* the same under the file backend alone
C7_File ==
    [][\A c \in Chats :
          (FileBackend /\ event'.cmd = "reset" /\ event'.chat = c
              /\ PromptInUse(c) /= DEFAULT_SYSTEM_PROMPT) =>
              /\ PromptInUse(c)' = DEFAULT_SYSTEM_PROMPT
              /\ Fetch(c)' = <<Turn("system", DEFAULT_SYSTEM_PROMPT)>>]_vars

\* C8: after a truncation call on a history th0 that starts with a system
\* turn, the history th has at most 1 + 2*MAX_HISTORY_TURNS turns, its first
\* turn is the first turn of th0, the turns after it are the last turns of
\* th0 in their order, and a history within the bound is unchanged.
C8_TruncationWindow ==
    th /= <<>> =>
        /\ Len(th) = Min(Len(th0), Window)
        /\ th[1] = th0[1]
        /\ \A i \in 2..Len(th) : th[i] = th0[Len(th0) - Len(th) + i]
        /\ Len(th0) <= Window => th = th0

\* a history more than one turn over the bound has been truncated
C8_Witness == th /= <<>> /\ Len(th0) > Window + 1 /\ Len(th) = Window

\* C9: the step in which the provider call of an accepted /ask or /image
\* fails leaves the chat's text and image counters, and the number of checks
\* passed, as they were: the slot is not given back.
C9_NoRefundOnFailure ==
    [][\A c \in Chats :
          (event'.reply = "error" /\ event'.chat = c) =>
              /\ TextCounter(c)' = TextCounter(c)
              /\ ImageCounter(c)' = ImageCounter(c)
              /\ accepted'[c] = accepted[c]]_vars

\* a failed /ask of a chat under quota, whose check reads a count >= 1
C9_Witness ==
    \E c \in Chats :
        /\ ~Unlimited(c)
        /\ event.cmd = "ask" /\ event.reply = "error" /\ event.chat = c
        /\ accepted[c] >= 1
        /\ \E n \in TodayCounts(c) : n >= 1

\* the history of chat c that survives a restart of the bot
PersistedHistory(c) ==
    IF USE_DATABASE THEN get_chat_history(Cur, c, 0)
    ELSE Get(_load_state(stateFile).HISTORIES, c, <<>>)

\* C10: the step in which the provider call of an /ask fails answers with
\* an error, adds no turn to the chat's history, and leaves the persisted
\* history of the chat ending with the user turn of the request.
C10_FailedAskKeepsUserTurn ==
    [][\A c \in Chats :
          (event'.cmd = "ask" /\ event'.reply = "error" /\ event'.chat = c) =>
              /\ StoredHistory(c)' = StoredHistory(c)
              /\ PersistedHistory(c)' /= <<>>
              /\ PersistedHistory(c)'[Len(PersistedHistory(c)')].role = "user"]_vars

\* the same under the database backend alone
C10_Database ==
    [][\A c \in Chats :
          (USE_DATABASE /\ event'.cmd = "ask" /\ event'.reply = "error"
              /\ event'.chat = c) =>
              /\ StoredHistory(c)' = StoredHistory(c)
              /\ PersistedHistory(c)' /= <<>>
              /\ PersistedHistory(c)'[Len(PersistedHistory(c)')].role = "user"]_vars

\* C11: a step of a chat under quota in which the database failed inside
\* the quota check is not answered "limit reached" and does not go on as an
\* accepted request (no usage or length reply, nothing handed to the
\* provider, no check counted as passed).
C11_StorageFailureIsNoDecision ==
    [][\A c \in Chats :
          (event'.fault /\ event'.chat = c /\ ~Unlimited(c)) =>
              /\ event'.reply \notin {"limit", "usage", "too_long", "provider"}
              /\ accepted' = accepted
              /\ inflight' = inflight]_vars

\* an /ask whose question is empty or longer than MAX_QUESTION_LEN
RejectedQuestions ==
    {q \in Questions \X ReplyTexts :
        LET question == IF q[1] = "" /\ q[2] /= None THEN q[2] ELSE q[1]
        IN question = "" \/ Len(question) > MAX_QUESTION_LEN}
AskOfRejectedQuestion ==
    \E c \in senders, q \in RejectedQuestions :
        \E usage \in FirstRows(dbUsage, c, today) : AskStart(c, q[1], q[2], usage)

\* C12: the step of an /ask whose question is empty or longer than
\* MAX_QUESTION_LEN appends nothing to any chat's history (in memory, in the
\* state file, in the database) and hands nothing to the provider.
C12_RejectedQuestionNotStored ==
    [][AskOfRejectedQuestion =>
          /\ \A c \in Chats : StoredHistory(c)' = StoredHistory(c)
          /\ stateFile'.histories = stateFile.histories
          /\ inflight' = inflight
          /\ event'.sent = <<>>
          /\ event'.reply \in {"limit", "usage", "too_long"}]_vars

\* an over-length question was rejected while an earlier /ask of the chat,
\* whose user turn is stored, waits for the provider
C12_Witness ==
    \E c \in Chats :
        /\ event.cmd = "ask" /\ event.reply = "too_long" /\ event.chat = c
        /\ NumInflight(c, "ask") >= 1
        /\ \E i \in DOMAIN StoredHistory(c)[IF USE_DATABASE THEN 3 ELSE 2] :
               StoredHistory(c)[IF USE_DATABASE THEN 3 ELSE 2][i].role = "user"

\* the history the running backend holds for chat c (<<>>: none yet)
HeldHistory(c) ==
    IF USE_DATABASE THEN get_chat_history(Cur, c, 0) ELSE Get(HISTORIES, c, <<>>)

\* what the file backend makes of a held history h and prompt p on a command
AfterQuestion(h, p, question) ==
    _truncate_history(Append(IF h = <<>> THEN <<Turn("system", p)>> ELSE h,
                             Turn("user", question)))
BackendsAgreeOn(c) ==
    /\ (event'.cmd = "ask" /\ event'.reply = "provider") =>
          /\ HeldHistory(c)' = AfterQuestion(HeldHistory(c), PromptInUse(c), "aa")
          /\ event'.sent = HeldHistory(c)'
    /\ (event'.cmd = "ask" /\ event'.reply = "answer") =>
          HeldHistory(c)' = Append(HeldHistory(c), Turn("assistant", "r"))
    /\ (event'.cmd = "setprompt" /\ event'.reply = "ok") =>
          /\ HeldHistory(c)' = <<Turn("system", event'.prompt)>>
          /\ PromptInUse(c)' = event'.prompt
    /\ event'.cmd = "reset" =>
          /\ HeldHistory(c)' = <<Turn("system", DEFAULT_SYSTEM_PROMPT)>>
          /\ PromptInUse(c)' = DEFAULT_SYSTEM_PROMPT

\* C13: with commands handled one at a time, every command changes the
\* history and the prompt a backend holds for the chat, and hands the
\* provider a conversation, exactly as the file backend does from the same
\* held history and prompt: the two backends stay equal command by command.
C13_BackendsAgree ==
    [][\A c \in Chats : event'.chat = c => BackendsAgreeOn(c)]_vars

\* the file backend alone follows these transitions
C13_File ==
    [][\A c \in Chats : (FileBackend /\ event'.chat = c) => BackendsAgreeOn(c)]_vars

\* every line of the whitelist file is a number
WellFormedFile == \A i \in DOMAIN unlimitedFile : IsIntLine(unlimitedFile[i])

\* the whitelist as memory, file and database hold it
DbFlag(c) == Get(dbChats, c, FALSE)
WhitelistState == <<UNLIMITED_IDS, unlimitedFile, [c \in Chats |-> DbFlag(c)]>>

\* C14: adding a chat that is already whitelisted, and removing one that is
\* not, succeeds and leaves the in-memory set, the lines of the whitelist
\* file and the database flags as they were (so a second add or remove of
\* the same chat changes nothing the first one left).
C14_WhitelistIdempotent ==
    [][\A u \in Chats :
          /\ (event'.cmd = "add_unlimited" /\ event'.chat = u /\ Unlimited(u)) =>
                (event'.reply = "ok" /\ WhitelistState' = WhitelistState)
          /\ (event'.cmd = "remove_unlimited" /\ event'.chat = u /\ ~Unlimited(u)) =>
                (event'.reply = "ok" /\ WhitelistState' = WhitelistState)]_vars

\* the removal half of it alone
C14_RemoveAbsent ==
    [][\A u \in Chats :
          (/\ event'.cmd = "remove_unlimited" /\ event'.chat = u /\ ~Unlimited(u)
           /\ WellFormedFile) =>
              (event'.reply = "ok" /\ WhitelistState' = WhitelistState)]_vars

\* C15: the conversation handed to the provider for an /ask has at most
\* 1 + 2*MAX_HISTORY_TURNS turns, under either backend.
C15_OutboundWithinWindow ==
    (event.cmd = "ask" /\ event.reply = "provider") => Len(event.sent) <= Window

\* a full window was handed over for a chat that holds more turns than that
\* (database) or whose history had to be cut for it (file)
C15_Witness ==
    /\ event.cmd = "ask" /\ event.reply = "provider"
    /\ Len(event.sent) = Window
    /\ IF USE_DATABASE
       THEN Len(dbMessages[event.chat]) > Window
       ELSE event.sent[2].role = "assistant"

\* C16: with updates taken one at a time, the user turn of an /ask is
\* appended only when no earlier /ask of the chat is still waiting for the
\* provider, so at most one /ask of a chat is in flight and the turns of two
\* requests do not interleave.
C16_AsksOfAChatSerialized ==
    [][\A c \in Chats :
          /\ (event'.cmd = "ask" /\ event'.reply = "provider" /\ event'.chat = c) =>
                NumInflight(c, "ask") = 0
          /\ NumInflight(c, "ask")' <= 1]_vars

\* a second /ask of a chat was started after the first one was answered
C16_Witness ==
    \E c \in Chats :
        /\ event.cmd = "ask" /\ event.reply = "provider" /\ event.chat = c
        /\ NumInflight(c, "ask") = 1
        /\ \E i \in DOMAIN HeldHistory(c) : HeldHistory(c)[i].role = "assistant"

\* the step is an authorized /setprompt of chat c with a non-empty text
SetPromptOf(c) == event'.cmd = "setprompt" /\ event'.reply = "ok" /\ event'.chat = c

\* C17: /setprompt changes the prompt and the history of its chat in one step
\* of the event loop: the state a handler finds afterwards has the new prompt
\* and a history with no turn from before the command, and no state has the
\* one without the other.
C17_PromptAndHistorySwitchTogether ==
    [][\A c \in Chats :
          /\ SetPromptOf(c) =>
                /\ PromptInUse(c)' = event'.prompt
                /\ \A i \in DOMAIN HeldHistory(c)' :
                       HeldHistory(c)'[i] = Turn("system", event'.prompt)
          /\ (event'.cmd = "setprompt" /\ event'.chat = c /\ event'.reply /= "ok") =>
                /\ PromptInUse(c)' = PromptInUse(c)
                /\ HeldHistory(c)' = HeldHistory(c)]_vars

\* the same under the file backend alone
C17_File ==
    [][\A c \in Chats :
          (FileBackend /\ SetPromptOf(c)) =>
              /\ PromptInUse(c)' = event'.prompt
              /\ HeldHistory(c)' = <<Turn("system", event'.prompt)>>]_vars

\* under either backend no user or assistant turn survives the command
C17_NoEarlierConversation ==
    [][\A c \in Chats :
          SetPromptOf(c) =>
              /\ PromptInUse(c)' = event'.prompt
              /\ \A i \in DOMAIN HeldHistory(c)' : HeldHistory(c)'[i].role = "system"]_vars

\* a history with at most one system turn, which is then its first turn
SystemTurnLeads(h) == \A i \in DOMAIN h : h[i].role = "system" => i = 1

\* C18: in every reachable state each stored chat history (in memory, in the
\* messages table read in sequence order, and in the state file) has at most
\* one system turn, and that turn is the first one.
C18_OneLeadingSystemTurn ==
    \A c \in Chats :
        /\ SystemTurnLeads(HeldHistory(c))
        /\ SystemTurnLeads(Get(HISTORIES, c, <<>>))
        /\ SystemTurnLeads(Get(_load_state(stateFile).HISTORIES, c, <<>>))

\* a chat whose prompt was replaced holds a truncated history that starts
\* with its system turn
C18_Witness ==
    \E c \in Chats :
        /\ event.cmd = "ask" /\ event.reply = "provider" /\ event.chat = c
        /\ PromptInUse(c) = "P1"
        /\ Len(HeldHistory(c)) >= Window
        /\ HeldHistory(c)[1].role = "system"

\* the number of rows of a usage table that chat c has for day d
RowsOn(table, c, d) ==
    LET rows == {r \in BagToSet(table[c]) : r.date = d}
    IN IF rows = {} THEN 0
       ELSE BagCardinality([r \in rows |-> CopiesIn(r, table[c])])

\* C19: in every reachable state a chat has at most one text counter and at
\* most one image counter per date (the in-memory dictionaries hold one entry
\* per chat by construction; the usage tables must hold one row per day).
C19_OneCounterPerChatKindDate ==
    \A c \in Chats : \A d \in 1..MaxDay :
        /\ RowsOn(dbUsage, c, d) <= 1
        /\ RowsOn(dbImageUsage, c, d) <= 1

\* the image table alone is only written by the quota check
C19_ImageRows ==
    \A c \in Chats : \A d \in 1..MaxDay : RowsOn(dbImageUsage, c, d) <= 1

\* what a restart would load from the state file is what memory holds
PersistedEqualsMemory ==
    LET loaded == _load_state(stateFile)
    IN /\ loaded.PROMPTS = PROMPTS
       /\ loaded.DAILY_USAGE = DAILY_USAGE
       /\ loaded.DAILY_IMAGE_USAGE = DAILY_IMAGE_USAGE
       /\ loaded.HISTORIES = HISTORIES

\* C20: under the file backend, whenever no handler is running (every command
\* so far has finished, with an answer, a refusal or a provider error), the
\* state file holds the prompts, counters and histories that memory holds.
C20_PersistedEqualsMemory ==
    (FileBackend /\ NoHandlerRunning) => PersistedEqualsMemory

\* the commands that do end with a save: an answered /ask, /setprompt, /reset
C20_SavingCommands ==
    (/\ FileBackend
     /\ NoHandlerRunning
     /\ \/ event.cmd = "ask" /\ event.reply = "answer"
        \/ event.cmd = "setprompt" /\ event.reply = "ok"
        \/ event.cmd = "reset") => PersistedEqualsMemory

\* C21: after every whitelist add or remove, what a restart would load (the
\* chats flagged in the database, or the lines of the whitelist file) is the
\* set of chats the running process holds in memory.
C21_PersistedWhitelistIsMemory ==
    event.cmd \in {"add_unlimited", "remove_unlimited"} =>
        _load_unlimited_ids = UNLIMITED_IDS

\* the same for a whitelist file whose lines are all numbers
C21_WellFormedFile ==
    (event.cmd \in {"add_unlimited", "remove_unlimited"} /\ WellFormedFile) =>
        _load_unlimited_ids = UNLIMITED_IDS

\* the stores after the backend-level reset of chat c, and the next fetch
AfterReset(c) == _reset_chat_history(Cur, c)
FetchAfterReset(c) == _ensure_context(AfterReset(c), c).history

\* the reset touches the history of chat c only, and of that history it
\* keeps what was a system turn
ResetFrame(c) ==
    LET s == AfterReset(c)
    IN /\ s.PROMPTS = PROMPTS /\ s.dbPrompts = dbPrompts /\ s.dbChats = dbChats
       /\ s.DAILY_USAGE = DAILY_USAGE /\ s.DAILY_IMAGE_USAGE = DAILY_IMAGE_USAGE
       /\ s.dbUsage = dbUsage /\ s.dbImageUsage = dbImageUsage
       /\ s.stateFile = stateFile
       /\ \A d \in Chats \ {c} :
              /\ s.dbMessages[d] = dbMessages[d]
              /\ Get(s.HISTORIES, d, <<>>) = Get(HISTORIES, d, <<>>)
       /\ s.dbMessages[c] = SelectSeq(dbMessages[c], LAMBDA m : m.role = "system")
       /\ \A i \in DOMAIN FetchAfterReset(c) : FetchAfterReset(c)[i].role = "system"

\* C22: the backend-level reset of a chat's history removes its non-system
\* turns and nothing else, and the next history fetch starts from the
\* chat's system prompt: the custom one when it exists, the default
\* otherwise.
C22_ResetKeepsPrompt ==
    \A c \in Chats :
        /\ ResetFrame(c)
        /\ FetchAfterReset(c) = <<Turn("system", PromptInUse(c))>>

\* the frame alone, under either backend
C22_Frame == \A c \in Chats : ResetFrame(c)

\* the whole under the file backend
C22_File == FileBackend => C22_ResetKeepsPrompt

\* the text requests counted for chat c today, over every stored counter
TextTotal(c) ==
    IF USE_DATABASE
    THEN LET rows == {r \in BagToSet(dbUsage[c]) : r.date = today}
         IN SumCounts([r \in rows |-> r.count * CopiesIn(r, dbUsage[c])], rows)
    ELSE IF Get(DAILY_USAGE, c, <<0, 0>>)[1] = today THEN DAILY_USAGE[c][2] ELSE 0

\* C23: an /ask of a chat under quota that is rejected for an empty or
\* over-length question has raised the chat's text counter by one and left
\* its history as it was, and no step of the same day lowers the counter.
C23_QuotaBeforeValidation ==
    [][\A c \in Chats :
          /\ (/\ event'.cmd = "ask" /\ event'.chat = c
              /\ event'.reply \in {"usage", "too_long"}
              /\ ~Unlimited(c)) =>
                /\ TextTotal(c)' = TextTotal(c) + 1
                /\ StoredHistory(c)' = StoredHistory(c)
                /\ inflight' = inflight
          /\ today' = today => TextTotal(c)' >= TextTotal(c)]_vars

\* rejected questions alone have brought a chat to its daily limit
C23_Witness ==
    \E c \in Chats :
        /\ ~Unlimited(c)
        /\ event.cmd = "ask" /\ event.chat = c /\ event.reply \in {"usage", "too_long"}
        /\ TextTotal(c) = DAILY_LIMIT
        /\ \A i \in DOMAIN HeldHistory(c) : HeldHistory(c)[i].role = "system"

\* C24: a step of a command handled for chat a leaves the history, the
\* custom prompt, the text counter, the image counter and the whitelist
\* membership of every other chat b as they were, however the handlers of
\* the two chats interleave.
C24_OtherChatUntouched ==
    [][\A a \in Chats, b \in Chats :
          (a /= b /\ event'.chat = a) =>
              /\ StoredHistory(b)' = StoredHistory(b)
              /\ StoredPrompt(b)' = StoredPrompt(b)
              /\ TextCounter(b)' = TextCounter(b)
              /\ ImageCounter(b)' = ImageCounter(b)
              /\ Unlimited(b)' = Unlimited(b)
              /\ InflightOf(b, "ask")' = InflightOf(b, "ask")]_vars

\* chat 2 is reset while chat 1, under quota, has a custom prompt, both
\* counters set and an /ask waiting for the provider
C24_Witness ==
    /\ event.cmd = "reset" /\ event.chat = 2
    /\ ~Unlimited(1)
    /\ PromptInUse(1) = "P1"
    /\ TextTotal(1) >= 1
    /\ ImageCounter(1) /= <<<<0, 0>>, EmptyBag>>
    /\ NumInflight(1, "ask") = 1
    /\ \E i \in DOMAIN HeldHistory(1) : HeldHistory(1)[i].role = "user"

\* C25: a callback or message of a user who is not an admin changes neither
\* the whitelist (memory, file, database flags) nor any chat's pending admin
\* action, and the whitelist changes only in the step of a confirm-add or
\* confirm-remove callback that an admin sent.
C25_OnlyAdminsChangeWhitelist ==
    [][/\ (event'.cmd \in {"callback", "message", "add_unlimited", "remove_unlimited"}
           /\ event'.user \notin ADMIN_CHAT_IDS) =>
              /\ WhitelistState' = WhitelistState
              /\ admin_states' = admin_states
       /\ WhitelistState' /= WhitelistState =>
              /\ event'.cmd \in {"add_unlimited", "remove_unlimited"}
              /\ event'.user \in ADMIN_CHAT_IDS]_vars

\* a callback of user 11 was refused while a chat has a pending action and
\* the admin had added chat 1 to the whitelist
C25_Witness ==
    /\ event.cmd = "callback" /\ event.reply = "access_denied" /\ event.user = 11
    /\ admin_states /= EmptyDict
    /\ UNLIMITED_IDS = {1, 2}

\* the chat commands leave the whitelist and the pending actions alone
C25_CommandsKeepWhitelist ==
    [][WhitelistState' = WhitelistState /\ admin_states' = admin_states]_vars

\* the step is ask_cmd for `args` and `reply_to` in chat c, up to the
\* provider call
AskReaches(c, args, reply_to) ==
    /\ \E usage \in FirstRows(dbUsage, c, today) : AskStart(c, args, reply_to, usage)
    /\ event'.reply = "provider"

\* the question ask_cmd takes from the arguments or the replied-to message
QuestionOf(args, reply_to) == IF args = "" /\ reply_to /= None THEN reply_to ELSE args

\* C26: the conversation handed to the provider for an accepted, valid /ask
\* ends with the user turn that carries the question of that request, under
\* either backend.
C26_QuestionIsLastTurn ==
    [][\A c \in Chats, args \in Questions, reply_to \in ReplyTexts :
          AskReaches(c, args, reply_to) =>
              /\ event'.sent /= <<>>
              /\ event'.sent[Len(event'.sent)] = Turn("user", QuestionOf(args, reply_to))]_vars

\* the same under the file backend alone
C26_File ==
    [][\A c \in Chats, args \in Questions, reply_to \in ReplyTexts :
          (FileBackend /\ AskReaches(c, args, reply_to)) =>
              /\ event'.sent /= <<>>
              /\ event'.sent[Len(event'.sent)] = Turn("user", QuestionOf(args, reply_to))]_vars

\* no step of an /ask changes the image counter of its chat
AskKeepsImageCounter ==
    \A c \in Chats :
        (event'.cmd = "ask" /\ event'.chat = c) => ImageCounter(c)' = ImageCounter(c)

\* no step of an /image changes the text counter of its chat
ImageKeepsTextCounter ==
    \A c \in Chats :
        (event'.cmd = "image" /\ event'.chat = c) => TextCounter(c)' = TextCounter(c)

\* C27: an /image request never changes the text quota counter of its chat
\* and an /ask request never changes its image quota counter, under either
\* backend.
C27_QuotaKindsSeparate ==
    [][AskKeepsImageCounter /\ ImageKeepsTextCounter]_vars

\* the /ask half under either backend
C27_AskHalf == [][AskKeepsImageCounter]_vars

\* both halves under the file backend
C27_File == [][FileBackend => (AskKeepsImageCounter /\ ImageKeepsTextCounter)]_vars

\* C28: a /reset or /setprompt leaves the text and image counters of its
\* chat, and the counts a quota check can read, as they were; a chat whose
\* next text check would be refused is still refused after the command.
C28_ResetKeepsCounters ==
    [][\A c \in Chats :
          (event'.cmd \in {"reset", "setprompt"} /\ event'.chat = c) =>
              /\ TextCounter(c)' = TextCounter(c)
              /\ ImageCounter(c)' = ImageCounter(c)
              /\ TodayCounts(c)' = TodayCounts(c)
              /\ TodayImageCounts(c)' = TodayImageCounts(c)]_vars

\* a chat under quota that has used up both daily limits was reset
C28_Witness ==
    \E c \in Chats :
        /\ ~Unlimited(c)
        /\ event.cmd = "reset" /\ event.chat = c
        /\ \A n \in TodayCounts(c) : n >= DAILY_LIMIT
        /\ \A n \in TodayImageCounts(c) : n >= IMAGE_GENERATION_LIMIT

\* the histories of chat c that the file backend stores: in memory and in
\* the state file
FileHistories(c) ==
    {Get(HISTORIES, c, <<>>), Get(_load_state(stateFile).HISTORIES, c, <<>>)}

\* C29: under the file backend every stored history has at most
\* 2 + 2*MAX_HISTORY_TURNS turns (the window plus the assistant turn appended
\* after the truncation), and the step of an /ask that reaches the provider
\* leaves the history of its chat within the window.
C29_WindowPlusOne ==
    [][\A c \in Chats :
          FileBackend =>
              /\ \A h \in FileHistories(c)' : Len(h) <= Window + 1
              /\ (event'.cmd = "ask" /\ event'.reply = "provider" /\ event'.chat = c) =>
                    Len(HISTORIES'[c]) <= Window]_vars

\* an answered /ask has left a history one turn over the window, in memory
\* and in the state file
C29_Witness ==
    \E c \in Chats :
        /\ FileBackend
        /\ event.cmd = "ask" /\ event.reply = "answer" /\ event.chat = c
        /\ \A h \in FileHistories(c) : Len(h) = Window + 1

\* the history the next command of chat c works on
Fetched(c) == _ensure_context(Cur, c).history

OnlySystemTurn(h) == Len(h) = 1 /\ h[1].role = "system"

\* one /ask of chat c waits for the provider and the history of the chat
\* has lost the question that /ask stored: a /reset or a /setprompt of the
\* chat was handled in between
ResetWhileWaiting(c) ==
    /\ NumInflight(c, "ask") = 1
    /\ OnlySystemTurn(Fetched(c))

AnswerOf(c) == event'.cmd = "ask" /\ event'.reply = "answer" /\ event'.chat = c

\* C30: when a /reset or a /setprompt of a chat is handled while an /ask
\* of the chat waits for the provider, the answer of that /ask is not
\* appended to the history: once the /ask has finished too, the history
\* of the chat holds the system turn only, under either backend.
C30_AnswerAfterResetDropped ==
    [][\A c \in Chats :
          (ResetWhileWaiting(c) /\ AnswerOf(c)) => OnlySystemTurn(Fetched(c)')]_vars

\* the same under the file backend, where the suspended handler appends to
\* the list it fetched and HISTORIES[c] has been bound to a new one
C30_File ==
    [][\A c \in Chats :
          (FileBackend /\ ResetWhileWaiting(c) /\ AnswerOf(c)) =>
              /\ OnlySystemTurn(Fetched(c)')
              /\ OnlySystemTurn(Get(_load_state(stateFile').HISTORIES, c, <<>>))]_vars

====
